---- MODULE Spec2Model ----
(***************************************************************************)
(* The cancellation exercise of learning-Go-ch14 (src/unnamed/part_000,    *)
(* second program, lines 155-264): a status worker and a delay worker      *)
(* issue outbound calls bound to one context created by                    *)
(* context.WithCancelCause, publish their results on the unbuffered        *)
(* channel ch, and the main goroutine collects them in a select loop that  *)
(* also watches ctx.Done().                                                *)
(*                                                                         *)
(* Granularity.  One action is one synchronisation step of one goroutine:  *)
(* starting an outbound call, its return, the branch on its result (with   *)
(* the cancelFunc call it may make), entering a select, a print, wg.Done,  *)
(* wg.Wait.  cancelFunc runs under the context's mutex and is one step.    *)
(*                                                                         *)
(* select.  A goroutine entering a select polls its cases: when at least   *)
(* one can proceed, one of those is chosen (any of them); when none can,   *)
(* the goroutine parks on all of its channels.  A send on the unbuffered   *)
(* ch can proceed only when the receiver is parked on ch, a receive only   *)
(* when a sender is parked; the receive from ctx.Done() can proceed once   *)
(* the channel is closed.  A parked goroutine is resumed by the step of    *)
(* the goroutine that completes one of its cases: the partner of the       *)
(* handoff, or the cancelFunc call that closes ctx.Done().                 *)
(*                                                                         *)
(* Other programs of the repository.  The module also holds the GUID       *)
(* tracker (src/unnamed/part_001 with the tracker service of               *)
(* src/2-application-management/main.go), the Timeout middleware           *)
(* (src/unnamed/part_000, lines 141-153), the identity service             *)
(* (src/1-user-management/identity/identity.go with the user-management    *)
(* service of src/2-application-management/main.go) and the summation      *)
(* loop of exercise 2 (src/unnamed/part_000, lines 35-55).  Each program   *)
(* has its own variables and its own specification; a specification        *)
(* leaves the variables of the other programs at their initial values.     *)
(***************************************************************************)
EXTENDS Integers, Sequences, FiniteSets, TLC

\* Number of responses (of any status) the remote service gives to one
\* worker; further calls of that worker fail in transport.
MaxResp == 2

\* Number of cancel calls applied to a token in TokenSpec.
MaxCancels == 3

Workers == {"status", "delay"}

\* The error values of the program.  Nil is Go's nil error.
Nil == "nil"

\* What makeRequest returns: a response with its status code, or an error.
Ok == "200"
InternalServerError == "500"
Canceled == "context canceled"
ErrTransport == "transport error"
ErrAborted == "request aborted: context done"

\* fmt.Errorf("in status goroutine: %w", err) and
\* fmt.Errorf("in delay goroutine: %w", err)
Wrap(w, e) == "in " \o w \o " goroutine: " \o e

BadStatus == "bad status"

Errors == {ErrTransport, ErrAborted}

\* Every cause a cancelFunc call of the program passes.
CauseArgs == {Nil, BadStatus} \cup {Wrap(w, e) : w \in Workers, e \in Errors}

VARIABLES
    ctxDone,     \* ctx.Done() is closed (the token is cancelled)
    ctxCause,    \* the cause recorded in ctx; Nil while active
    pc,          \* pc[w]: position of worker w
    res,         \* res[w]: (resp, err) of w's last makeRequest
    chSendq,     \* workers parked in their select with a send on ch, in order
    mainPc,      \* position of the main goroutine
    s,           \* the value main received from ch
    wg,          \* the WaitGroup counter
    out,         \* the lines printed so far
    cancelLog,   \* history: <<caller, cause>> of every cancelFunc call, in order
    calls,       \* history: calls[w] = outbound calls w has issued
    resps,       \* history: resps[w] = responses the service gave to w
    published,   \* history: published[w] = handoffs of w accepted by main
    lastSel,     \* history: branch w's last completed select took
    doneAt,      \* history: calls[w] when w's select took its Done branch, else 0
    firstRes     \* history: outcome of w's first outbound call

\* The request chain of the tracker service (src/unnamed/part_001 and
\* src/2-application-management/main.go, lines 1-89): one inbound request.
VARIABLES
    tPc,         \* position of the request in Middleware / First / Process
    inHeader,    \* the values of the inbound request's X-GUID header
    freshGUID,   \* the value of uuid.New().String(), "none" if not called
    ctxGUID,     \* the GUID stored in the request context, "none" if absent
    outHeader,   \* the values of the outbound request's X-GUID header
    sentHeader,  \* the X-GUID headers of the requests sent to the remote service
    tLog         \* the lines Logger.Log printed: <<GUID prefix, message>>

\* The Timeout middleware (src/unnamed/part_000, lines 141-153): one request
\* served by Timeout(ms)(h).  A context is represented by its deadline: the
\* empty set if it has none, else the set of that one instant.
VARIABLES
    toPc,        \* position of the request in the middleware and in h
    ms,          \* the argument of Timeout
    now,         \* the clock, in milliseconds
    reqCtx,      \* r.Context() of the inbound request
    toCtx,       \* the local variable ctx of the middleware
    created,     \* the instant context.WithTimeout was called
    hCtx         \* the context of the request h.ServeHTTP was called with

\* The identity service (src/1-user-management/identity/identity.go and
\* src/2-application-management/main.go, lines 91-184) and one client.
\* Strings are sequences of characters; an optional value is the empty set
\* or the set of that value.
VARIABLES
    jar,         \* client: the identity cookies it keeps, [path, value]
    route,       \* the route of the last request, "none" before the first
    reqCookies,  \* the Cookie header of the last request: <<name, value>> pairs
    userParam,   \* the "user" query parameter of the last request
    resp,        \* the response to the last request
    session      \* history: the user of the last successful Login that no
                 \* successful Logout followed, if any

mainVars == <<ctxDone, ctxCause, pc, res, chSendq, mainPc, s, wg, out,
              cancelLog, calls, resps, published, lastSel, doneAt, firstRes>>

trackerVars == <<tPc, inHeader, freshGUID, ctxGUID, outHeader, sentHeader, tLog>>

\* The variables of the other programs, which a step of one program leaves
\* alone.
timeoutVars == <<toPc, ms, now, reqCtx, toCtx, created, hCtx>>

\* The summation loop (src/unnamed/part_000, lines 35-55).
VARIABLES
    loopPc,          \* "cond", "add", "check", "post", "print", "done"
    loopV,           \* v
    loopI,           \* i
    sum,
    reason,
    deadlinePassed,  \* the deadline of ctx has passed: context.Cause(ctx) # nil
    printed,         \* the lines printed
    generated,       \* history: the last value rand.IntN returned, if any
    addedValues,     \* history: the values added to sum
    addedInTime,     \* history: number of additions made before the deadline passed
    passedChecks,    \* history: number of checks that found context.Cause(ctx) = nil
    foundPassed      \* history: a check has found the deadline passed

identityVars == <<jar, route, reqCookies, userParam, resp, session>>

loopVars == <<loopPc, loopV, loopI, sum, reason, deadlinePassed, printed,
              generated, addedValues, addedInTime, passedChecks, foundPassed>>

notMainVars == <<trackerVars, timeoutVars, identityVars, loopVars>>
notTrackerVars == <<mainVars, timeoutVars, identityVars, loopVars>>
notTimeoutVars == <<mainVars, trackerVars, identityVars, loopVars>>
notIdentityVars == <<mainVars, trackerVars, timeoutVars, loopVars>>
notLoopVars == <<mainVars, trackerVars, timeoutVars, identityVars>>

vars == <<mainVars, trackerVars, timeoutVars, identityVars, loopVars>>

tokenVars == <<ctxDone, ctxCause, cancelLog>>
histVars == <<calls, resps, published, lastSel, doneAt, firstRes>>

----------------------------------------------------------------------------
\* context.WithCancelCause: the cancel function.

\* Faulty variant of Normalize: a nil cause is recorded as nil.
NormalizeNilKept(c) == c

\* cancel(nil) records context.Canceled as the cause.
Normalize(c) == IF c = Nil THEN Canceled ELSE c

\* Faulty variant of CauseAfter: every call records its cause.
CauseAfterOverwrite(c) == Normalize(c)

\* The recorded cause after cancelFunc(c): set by the first call only.
CauseAfter(c) == IF ctxDone THEN ctxCause ELSE Normalize(c)

\* context.Cause(ctx)
Cause == ctxCause

\* Where a worker continues after its select statement.
AfterSelect(w) == IF w = "status" THEN "sleep" ELSE "call"

\* close(done): every goroutine parked in a select on ctx.Done() is resumed
\* in its Done branch and leaves the queues of the other channels of its
\* select.  The workers parked on ch are exactly those in chSendq; main is
\* parked when mainPc = "parked".  The result is the state of the goroutines
\* after the close, the caller continuing at newPc.  CallerReturns is that
\* state when nothing is closed and only the caller moves on.
CallerReturns(caller, newPc) ==
    [pc      |-> [w \in Workers |-> IF w = caller THEN newPc ELSE pc[w]],
     mainPc  |-> IF caller = "main" THEN newPc ELSE mainPc,
     chSendq |-> chSendq,
     lastSel |-> lastSel,
     doneAt  |-> doneAt]

\* Faulty variant of CloseDone: the parked selects are not resumed and stay
\* queued on ch.
CloseDoneNoWake(caller, newPc) == CallerReturns(caller, newPc)

CloseDone(caller, newPc) ==
    [pc      |-> [w \in Workers |->
                    IF w = caller THEN newPc
                    ELSE IF pc[w] = "parked" THEN AfterSelect(w)
                    ELSE pc[w]],
     mainPc  |-> IF caller = "main" THEN newPc
                 ELSE IF mainPc = "parked" THEN "cancelled"
                 ELSE mainPc,
     chSendq |-> <<>>,
     lastSel |-> [w \in Workers |->
                    IF pc[w] = "parked" THEN "done" ELSE lastSel[w]],
     doneAt  |-> [w \in Workers |->
                    IF pc[w] = "parked" THEN calls[w] ELSE doneAt[w]]]

\* cancelFunc(c) called by `caller` (a worker or "main"), which continues at
\* callerPc.  The first call records the cause and closes ctx.Done(); any
\* call after the first does nothing.
cancelFunc(caller, c, callerPc) ==
    LET after == IF ctxDone THEN CallerReturns(caller, callerPc)
                            ELSE CloseDone(caller, callerPc)
    IN  /\ ctxCause' = CauseAfter(c)
        /\ ctxDone' = TRUE
        /\ cancelLog' = Append(cancelLog, <<caller, c>>)
        /\ pc' = after.pc
        /\ mainPc' = after.mainPc
        /\ chSendq' = after.chSendq
        /\ lastSel' = after.lastSel
        /\ doneAt' = after.doneAt

----------------------------------------------------------------------------
\* State after main has created ctx, ch and wg (wg.Add(2)) and started both
\* workers.
MainInit ==
    /\ ctxDone = FALSE
    /\ ctxCause = Nil
    /\ pc = [w \in Workers |-> "call"]
    /\ res = [w \in Workers |-> "none"]
    /\ chSendq = <<>>
    /\ mainPc = "select"
    /\ s = "none"
    /\ wg = 2
    /\ out = <<>>
    /\ cancelLog = <<>>
    /\ calls = [w \in Workers |-> 0]
    /\ resps = [w \in Workers |-> 0]
    /\ published = [w \in Workers |-> 0]
    /\ lastSel = [w \in Workers |-> "none"]
    /\ doneAt = [w \in Workers |-> 0]
    /\ firstRes = [w \in Workers |-> "none"]

\* No request has reached the tracker service.
TrackerIdle ==
    /\ tPc = "idle"
    /\ inHeader = <<>>
    /\ freshGUID = "none"
    /\ ctxGUID = "none"
    /\ outHeader = <<>>
    /\ sentHeader = <<>>
    /\ tLog = <<>>

\* No request has reached the Timeout middleware.
TimeoutIdle ==
    /\ toPc = "idle"
    /\ ms = 0
    /\ now = 0
    /\ reqCtx = {}
    /\ toCtx = {}
    /\ created = 0
    /\ hCtx = {}

\* A response not yet given.
NoResp ==
    [status |-> 0, invoked |-> "none", user |-> {}, greeted |-> {},
     setCookie |-> <<>>]

\* The identity service has started; the client has no cookie and has sent
\* no request.
IdentityIdle ==
    /\ jar = {}
    /\ route = "none"
    /\ reqCookies = <<>>
    /\ userParam = <<>>
    /\ resp = NoResp
    /\ session = {}

\* The summation loop has not been entered: the variables as declared at
\* lines 40-41, the deadline ahead.
LoopIdle ==
    /\ loopPc = "cond"
    /\ loopV = 0
    /\ loopI = 0
    /\ sum = 0
    /\ reason = "number reached"
    /\ deadlinePassed = FALSE
    /\ printed = <<>>
    /\ generated = {}
    /\ addedValues = {}
    /\ addedInTime = 0
    /\ passedChecks = 0
    /\ foundPassed = FALSE

Init == MainInit /\ TrackerIdle /\ TimeoutIdle /\ IdentityIdle /\ LoopIdle

----------------------------------------------------------------------------
\* makeRequest(ctx, url)

\* Faulty variant of makeRequest: the request is not bound to ctx, so a call
\* started on a cancelled token goes out like any other.
makeRequestUnbound(w) ==
    /\ pc[w] = "call"
    /\ calls' = [calls EXCEPT ![w] = @ + 1]
    /\ pc' = [pc EXCEPT ![w] = "inflight"]
    /\ UNCHANGED <<tokenVars, res, chSendq, mainPc, s, wg, out, resps,
                   published, lastSel, doneAt, firstRes>>
    /\ UNCHANGED notMainVars

\* The call starts.  http.DefaultClient.Do refuses a request whose context
\* is already done; NewRequestWithContext cannot fail on the constant URLs.
makeRequest(w) ==
    /\ pc[w] = "call"
    /\ calls' = [calls EXCEPT ![w] = @ + 1]
    /\ IF ctxDone
          THEN /\ res' = [res EXCEPT ![w] = ErrAborted]
               /\ pc' = [pc EXCEPT ![w] = "check"]
               /\ firstRes' = IF calls[w] = 0
                                 THEN [firstRes EXCEPT ![w] = ErrAborted]
                                 ELSE firstRes
          ELSE /\ pc' = [pc EXCEPT ![w] = "inflight"]
               /\ UNCHANGED <<res, firstRes>>
    /\ UNCHANGED <<tokenVars, chSendq, mainPc, s, wg, out, resps, published, lastSel, doneAt>>
    /\ UNCHANGED notMainVars

\* What a call in flight can return: a response, a transport failure, or,
\* once ctx is done, the abort of the call (which races with the response).
Outcomes(w) ==
    (IF resps[w] < MaxResp THEN {Ok, InternalServerError} ELSE {})
        \cup {ErrTransport}
        \cup (IF ctxDone THEN {ErrAborted} ELSE {})

makeRequestReturn(w) ==
    /\ pc[w] = "inflight"
    /\ \E r \in Outcomes(w) :
          /\ res' = [res EXCEPT ![w] = r]
          /\ resps' = IF r \in Errors THEN resps ELSE [resps EXCEPT ![w] = @ + 1]
          /\ firstRes' = IF calls[w] = 1 THEN [firstRes EXCEPT ![w] = r] ELSE firstRes
    /\ pc' = [pc EXCEPT ![w] = "check"]
    /\ UNCHANGED <<tokenVars, chSendq, mainPc, s, wg, out, calls, published, lastSel, doneAt>>
    /\ UNCHANGED notMainVars

----------------------------------------------------------------------------
\* The workers' handling of the result (lines 203-215 and 236-242).

\* Faulty variant of ChecksStatus: no worker inspects the status.
ChecksStatusNobody(w) == FALSE

\* Whether the worker treats the response as an application failure: only
\* the status worker inspects resp.StatusCode.
ChecksStatus(w) == w = "status"

\* Faulty variant of ErrLines: no worker prints its error.
ErrLinesSilent(w, e) == <<>>

\* Lines the worker prints before it cancels on err != nil: the delay
\* worker prints the error, the status worker prints nothing.
ErrLines(w, e) ==
    IF w = "delay" THEN << <<"in delay goroutine:", e>> >> ELSE <<>>

\* Faulty variant of Fail: the worker returns without cancelling.
FailNoCancel(w) ==
    /\ res[w] \in Errors
    /\ out' = out \o ErrLines(w, res[w])
    /\ pc' = [pc EXCEPT ![w] = "return"]
    /\ UNCHANGED <<tokenVars, chSendq, lastSel, doneAt, mainPc>>

\* Faulty variant of Fail: after cancelling, the worker tries again.
FailRetry(w) ==
    /\ res[w] \in Errors
    /\ out' = out \o ErrLines(w, res[w])
    /\ cancelFunc(w, Wrap(w, res[w]), "call")

\* err != nil: cancel with the wrapped error and return.
Fail(w) ==
    /\ res[w] \in Errors
    /\ out' = out \o ErrLines(w, res[w])
    /\ cancelFunc(w, Wrap(w, res[w]), "return")

\* resp.StatusCode == http.StatusInternalServerError: cancel and return.
BadStatusFail(w) ==
    /\ res[w] = InternalServerError
    /\ ChecksStatus(w)
    /\ cancelFunc(w, BadStatus, "return")
    /\ UNCHANGED out

\* Otherwise the worker goes on to its select.
Proceed(w) ==
    /\ res[w] \notin Errors
    /\ ~(res[w] = InternalServerError /\ ChecksStatus(w))
    /\ pc' = [pc EXCEPT ![w] = "select"]
    /\ UNCHANGED <<tokenVars, chSendq, lastSel, doneAt, mainPc, out>>

CheckResult(w) ==
    /\ pc[w] = "check"
    /\ \/ Fail(w)
       \/ BadStatusFail(w)
       \/ Proceed(w)
    /\ UNCHANGED <<res, s, wg, calls, resps, published, firstRes>>
    /\ UNCHANGED notMainVars

----------------------------------------------------------------------------
\* select { case ch <- msg: case <-ctx.Done(): }  (lines 217-224, 244-247)

Msg(w) == "success from " \o w

\* Faulty variant of WorkerReady: the send proceeds whether or not main is
\* parked on ch, as on a channel with room in a buffer.
WorkerReadyBuffered(w) == {"send"} \cup (IF ctxDone THEN {"done"} ELSE {})

\* The cases of the worker's select that can proceed when it enters it.
WorkerReady(w) ==
    (IF mainPc = "parked" THEN {"send"} ELSE {})
        \cup (IF ctxDone THEN {"done"} ELSE {})

WorkerSelect(w) ==
    /\ pc[w] = "select"
    /\ IF WorkerReady(w) = {}
          THEN /\ pc' = [pc EXCEPT ![w] = "parked"]
               /\ chSendq' = Append(chSendq, w)
               /\ UNCHANGED <<mainPc, s, published, lastSel, doneAt>>
          ELSE \E c \in WorkerReady(w) :
                  /\ pc' = [pc EXCEPT ![w] = AfterSelect(w)]
                  /\ lastSel' = [lastSel EXCEPT ![w] = c]
                  /\ IF c = "send"
                        THEN /\ mainPc' = "recvd"
                             /\ s' = Msg(w)
                             /\ published' = [published EXCEPT ![w] = @ + 1]
                             /\ UNCHANGED doneAt
                        ELSE /\ doneAt' = [doneAt EXCEPT ![w] = calls[w]]
                             /\ UNCHANGED <<mainPc, s, published>>
                  /\ UNCHANGED chSendq
    /\ UNCHANGED <<tokenVars, res, wg, out, calls, resps, firstRes>>
    /\ UNCHANGED notMainVars

\* time.Sleep(1 * time.Second) of the status worker
Sleep(w) ==
    /\ pc[w] = "sleep"
    /\ pc' = [pc EXCEPT ![w] = "call"]
    /\ UNCHANGED <<tokenVars, res, chSendq, mainPc, s, wg, out, histVars>>
    /\ UNCHANGED notMainVars

\* defer wg.Done()
WgDone(w) ==
    /\ pc[w] = "return"
    /\ pc' = [pc EXCEPT ![w] = "done"]
    /\ wg' = wg - 1
    /\ UNCHANGED <<tokenVars, res, chSendq, mainPc, s, out, histVars>>
    /\ UNCHANGED notMainVars

WorkerStep(w) ==
    \/ makeRequest(w)
    \/ makeRequestReturn(w)
    \/ CheckResult(w)
    \/ WorkerSelect(w)
    \/ Sleep(w)
    \/ WgDone(w)

----------------------------------------------------------------------------
\* The collector loop of main (lines 251-260).

\* Faulty variant of MainReady: the Done case is taken whatever the token.
MainReadyDefault == {"done"}

\* The cases of main's select that can proceed when it enters it.
MainReady ==
    (IF chSendq # <<>> THEN {"recv"} ELSE {})
        \cup (IF ctxDone THEN {"done"} ELSE {})

MainSelect ==
    /\ mainPc = "select"
    /\ IF MainReady = {}
          THEN /\ mainPc' = "parked"
               /\ UNCHANGED <<pc, chSendq, s, published, lastSel, doneAt>>
          ELSE \E c \in MainReady :
                  IF c = "recv"
                     THEN LET w == Head(chSendq) IN
                          /\ chSendq' = Tail(chSendq)
                          /\ pc' = [pc EXCEPT ![w] = AfterSelect(w)]
                          /\ lastSel' = [lastSel EXCEPT ![w] = "send"]
                          /\ published' = [published EXCEPT ![w] = @ + 1]
                          /\ s' = Msg(w)
                          /\ mainPc' = "recvd"
                          /\ UNCHANGED doneAt
                     ELSE /\ mainPc' = "cancelled"
                          /\ UNCHANGED <<pc, chSendq, s, published, lastSel, doneAt>>
    /\ UNCHANGED <<tokenVars, res, wg, out, calls, resps, firstRes>>
    /\ UNCHANGED notMainVars

\* case s := <-ch: fmt.Println("in main:", s)
MainPrintResult ==
    /\ mainPc = "recvd"
    /\ out' = Append(out, <<"in main:", s>>)
    /\ mainPc' = "select"
    /\ UNCHANGED <<tokenVars, pc, res, chSendq, s, wg, histVars>>
    /\ UNCHANGED notMainVars

\* case <-ctx.Done(): fmt.Println("in main: cancelled!", context.Cause(ctx))
MainPrintCancelled ==
    /\ mainPc = "cancelled"
    /\ out' = Append(out, <<"in main: cancelled!", Cause>>)
    /\ mainPc' = "wait"
    /\ UNCHANGED <<tokenVars, pc, res, chSendq, s, wg, histVars>>
    /\ UNCHANGED notMainVars

\* Faulty variant of WaitReturns: main does not wait for the workers.
WaitReturnsAlways == TRUE

\* wg.Wait() returns when the counter is zero.
WaitReturns == wg = 0

MainWait ==
    /\ mainPc = "wait"
    /\ WaitReturns
    /\ mainPc' = "report"
    /\ UNCHANGED <<tokenVars, pc, res, chSendq, s, wg, out, histVars>>
    /\ UNCHANGED notMainVars

\* fmt.Println("context cause:", context.Cause(ctx))
MainReport ==
    /\ mainPc = "report"
    /\ out' = Append(out, <<"context cause:", Cause>>)
    /\ mainPc' = "defer"
    /\ UNCHANGED <<tokenVars, pc, res, chSendq, s, wg, histVars>>
    /\ UNCHANGED notMainVars

\* defer cancelFunc(nil), run when main returns
MainDeferredCancel ==
    /\ mainPc = "defer"
    /\ cancelFunc("main", Nil, "exit")
    /\ UNCHANGED <<res, s, wg, out, calls, resps, published, firstRes>>
    /\ UNCHANGED notMainVars

MainStep ==
    \/ MainSelect
    \/ MainPrintResult
    \/ MainPrintCancelled
    \/ MainWait
    \/ MainReport
    \/ MainDeferredCancel

Next ==
    \/ \E w \in Workers : WorkerStep(w)
    \/ MainStep

Spec == Init /\ [][Next]_vars

\* Every runnable goroutine is eventually scheduled and every outbound call
\* eventually returns.
LiveSpec ==
    /\ Init
    /\ [][Next]_vars
    /\ \A w \in Workers : WF_vars(WorkerStep(w))
    /\ WF_vars(MainStep)

TypeOK ==
    /\ ctxDone \in BOOLEAN
    /\ ctxCause \in (CauseArgs \cup {Canceled})
    /\ pc \in [Workers -> {"call", "inflight", "check", "select", "parked",
                           "sleep", "return", "done"}]
    /\ res \in [Workers -> {"none", Ok, InternalServerError} \cup Errors]
    /\ mainPc \in {"select", "parked", "recvd", "cancelled", "wait", "report",
                   "defer", "exit"}
    /\ wg \in 0..2

----------------------------------------------------------------------------
\* The token alone: any sequence of at most MaxCancels cancelFunc calls with
\* any causes, nil included, on a fresh context.
TokenCancel(c) ==
    /\ Len(cancelLog) < MaxCancels
    /\ cancelFunc("main", c, mainPc)
    /\ UNCHANGED <<res, s, wg, out, calls, resps, published, firstRes>>
    /\ UNCHANGED notMainVars

TokenNext == \E c \in CauseArgs : TokenCancel(c)

TokenSpec == Init /\ [][TokenNext]_vars

----------------------------------------------------------------------------
\* Derived notions used by the properties.

InLoop == mainPc \in {"select", "parked", "recvd", "cancelled"}

Stopped(w) == pc[w] \in {"return", "done"}

\* The cancelFunc calls made by `caller` so far.
CancelsBy(caller) == {i \in 1..Len(cancelLog) : cancelLog[i][1] = caller}

\* The positions of the printed lines that start with `prefix`.
Lines(prefix) == {i \in 1..Len(out) : out[i][1] = prefix}

----------------------------------------------------------------------------
\* C1 (first cause wins): in every state after a cancelFunc call, whoever
\* made the calls and in whatever order, context.Cause(ctx) is the cause
\* passed by the first call; the later calls of the other worker and main's
\* deferred cancelFunc(nil) leave it as it is.
FirstCauseWins ==
    /\ cancelLog # <<>> => Cause = cancelLog[1][2]
    /\ \A i \in 2..Len(cancelLog) :
          cancelLog[i][2] # cancelLog[1][2] => Cause # cancelLog[i][2]

\* Both workers and main have called cancelFunc, with three distinct causes.
FirstCauseWinsWitness ==
    /\ Len(cancelLog) = 3
    /\ CancelsBy("status") # {} /\ CancelsBy("delay") # {}
    /\ cancelLog[3] = <<"main", Nil>>
    /\ cancelLog[1][2] # cancelLog[2][2]
    /\ Cause = cancelLog[1][2]

\* C2 (no result after cancellation): from the step that cancels the token
\* on, no handoff completes: the number of results accepted from each worker
\* and the value main holds do not change, a publish that was pending when
\* the token was cancelled ends in its Done branch, and a select a worker
\* enters after the cancellation ends in its Done branch.
NoResultAfterCancel ==
    [][ctxDone' =>
          /\ published' = published
          /\ s' = s
          /\ chSendq' = <<>>
          /\ \A w \in Workers :
                /\ (~ctxDone /\ pc[w] = "parked") => lastSel'[w] = "done"
                /\ (pc[w] = "select" /\ pc'[w] # "select")
                      => (pc'[w] = AfterSelect(w) /\ lastSel'[w] = "done")]_vars

\* A worker's pending publish was dropped by the cancellation: it had one
\* more response to publish than main accepted.
NoResultAfterCancelWitness ==
    \E w \in Workers :
        /\ ctxDone
        /\ lastSel[w] = "done"
        /\ doneAt[w] = published[w] + 1
        /\ CancelsBy(w) = {}

\* C3 (idempotent, irreversible cancellation): over any sequence of
\* cancelFunc calls with any causes, the token changes state only in the
\* first call, from active to cancelled, and every call leaves it cancelled;
\* the cause is nil exactly while the token is active and no call changes a
\* cause once recorded.
IdempotentCancel ==
    [][/\ (ctxDone' # ctxDone) => (~ctxDone /\ ctxDone' /\ cancelLog = <<>>)
       /\ (cancelLog' # cancelLog) => ctxDone'
       /\ ctxDone => ctxCause' = ctxCause
       /\ (Cause = Nil) <=> ~ctxDone
       /\ (Cause' = Nil) <=> ~ctxDone']_vars

\* Three calls, the first with a nil cause and the later ones with others.
IdempotentCancelWitness ==
    /\ Len(cancelLog) = MaxCancels
    /\ cancelLog[1][2] = Nil
    /\ cancelLog[2][2] # Nil
    /\ ctxDone /\ Cause = Canceled

\* C4 (failure cancels in the first iteration): a worker whose first
\* outbound call failed makes no second call and publishes nothing, and as
\* soon as it has acted on the result the token is cancelled and the worker
\* has made exactly one cancelFunc call, with the wrapped error as cause.
FailureCancelsAtOnce ==
    \A w \in Workers :
        firstRes[w] \in Errors =>
            /\ calls[w] = 1
            /\ published[w] = 0
            /\ pc[w] \in {"check", "return", "done"}
            /\ pc[w] # "check" =>
                  /\ ctxDone
                  /\ \E i \in 1..Len(cancelLog) :
                        CancelsBy(w) = {i}
                        /\ cancelLog[i][2] = Wrap(w, firstRes[w])

\* A worker's first call failed in transport while the other worker was
\* publishing and main was in its loop; the failing worker has cancelled.
FailureCancelsAtOnceWitness ==
    \E w \in Workers :
        /\ firstRes[w] = ErrTransport
        /\ pc[w] = "return"
        /\ ctxDone /\ Cause = Wrap(w, ErrTransport)
        /\ \E v \in Workers \ {w} : published[v] > 0
        /\ InLoop

\* C5 (shutdown ordering): the line "context cause:" is printed only when
\* both workers have terminated and main has left its loop, and the cause in
\* it is the cause of the "in main: cancelled!" line printed before it.
ShutdownOrdering ==
    \A i \in Lines("context cause:") :
        /\ \A w \in Workers : pc[w] = "done"
        /\ wg = 0
        /\ ~InLoop
        /\ \E j \in 1..(i - 1) : out[j] = <<"in main: cancelled!", out[i][2]>>

\* The final report has been printed after a worker that found the token
\* cancelled made its own, later cancelFunc call.
ShutdownOrderingWitness ==
    /\ Lines("context cause:") # {}
    /\ Len(cancelLog) >= 2
    /\ \E w \in Workers : doneAt[w] > 0

\* C6 (termination after cancellation): under fair scheduling, with every
\* outbound call returning and calls on a cancelled token failing, once the
\* token is cancelled main leaves its loop, both workers terminate, no
\* worker stays parked on ch, and main's wg.Wait returns and main exits.
TerminationAfterCancel ==
    ctxDone ~> (/\ mainPc = "exit"
                /\ \A w \in Workers : pc[w] = "done"
                /\ chSendq = <<>>
                /\ wg = 0)

\* Everything has terminated, and one worker was parked on ch when the
\* token was cancelled.
TerminationAfterCancelWitness ==
    /\ mainPc = "exit"
    /\ \A w \in Workers : pc[w] = "done"
    /\ \E w \in Workers : lastSel[w] = "done" /\ doneAt[w] = published[w] + 1

\* C7 as stated (publish race lost, then Stopped): once a worker's select
\* has taken its Done branch, the worker issues no further outbound call and
\* makes no cancelFunc call.
DoneBranchStops ==
    [][\A w \in Workers :
          doneAt[w] > 0 =>
              /\ calls'[w] = calls[w]
              /\ CancelsBy(w)' = CancelsBy(w)]_vars

\* C7 as amended: once a worker's select has taken its Done branch the
\* token is cancelled and the result of that iteration is never delivered;
\* the worker publishes nothing further, issues exactly one further outbound
\* call, which fails because the token is cancelled, makes one cancelFunc
\* call with that error, which is not the recorded cause, and terminates.
DoneBranchThenOneFailedCall ==
    \A w \in Workers :
        doneAt[w] > 0 =>
            /\ ctxDone
            /\ lastSel[w] = "done"
            /\ published[w] = doneAt[w] - 1
            /\ calls[w] \in {doneAt[w], doneAt[w] + 1}
            /\ calls[w] = doneAt[w] => (pc[w] = AfterSelect(w) \/ pc[w] = "call")
            /\ calls[w] = doneAt[w] + 1 =>
                  /\ pc[w] \in {"check", "return", "done"}
                  /\ res[w] = ErrAborted
            /\ Stopped(w) =>
                  /\ calls[w] = doneAt[w] + 1
                  /\ \E i \in 2..Len(cancelLog) :
                        CancelsBy(w) = {i}
                        /\ cancelLog[i][2] = Wrap(w, ErrAborted)
                  /\ Cause # Wrap(w, ErrAborted)

\* A worker whose select took the Done branch has terminated.
DoneBranchThenOneFailedCallWitness ==
    \E w \in Workers : doneAt[w] > 0 /\ pc[w] = "done" /\ published[w] > 0

\* C8 as stated (silent termination of the non-causing worker): a worker
\* that terminated and whose cancelFunc call was not the first has printed
\* no line.
NonCausingWorkerSilent ==
    \A w \in Workers :
        (pc[w] = "done" /\ cancelLog[1][1] # w) =>
            Lines("in " \o w \o " goroutine:") = {}

\* C8 as amended: the first cancelFunc call is a worker's and its cause is
\* the recorded cause in every later state; the other worker, once
\* terminated, has left the cause unchanged; the status worker prints no
\* line at all, whereas the delay worker, causing or not, prints exactly one
\* line "in delay goroutine:" with the error of its failed call.
NonCausingWorkerKeepsCause ==
    /\ cancelLog # <<>> =>
          /\ cancelLog[1][1] \in Workers
          /\ Cause = cancelLog[1][2]
    /\ Lines("in status goroutine:") = {}
    /\ \A i \in 1..Len(out) :
          out[i][1] \in {"in main:", "in main: cancelled!", "context cause:",
                         "in delay goroutine:"}
    /\ IF Stopped("delay")
          THEN \E i \in 1..Len(out) :
                  /\ Lines("in delay goroutine:") = {i}
                  /\ out[i][2] = res["delay"]
          ELSE Lines("in delay goroutine:") = {}

\* The status worker cancelled first and the delay worker, whose call was
\* aborted by the cancellation, has terminated.
NonCausingWorkerKeepsCauseWitness ==
    /\ cancelLog # <<>>
    /\ cancelLog[1][1] = "status"
    /\ pc["delay"] = "done"
    /\ res["delay"] = ErrAborted
    /\ Lines("in delay goroutine:") # {}

\* C9 as stated (application failure is fatal for either worker): a worker
\* that has acted on a response with status 500 has stopped.
BadStatusFatalForBoth ==
    \A w \in Workers :
        (res[w] = InternalServerError /\ pc[w] # "check") => Stopped(w)

\* C9 as amended: application failure is fatal for the status worker only.
\* The status worker that has acted on a 500 response has made one
\* cancelFunc call with cause "bad status", has published nothing for that
\* response and has stopped; the delay worker does not inspect the status:
\* on a 500 response it does not stop, goes on to publish it, and never
\* calls cancelFunc with "bad status".
BadStatusFatalForStatusOnly ==
    /\ (res["status"] = InternalServerError /\ pc["status"] # "check") =>
          /\ Stopped("status")
          /\ ctxDone
          /\ \E i \in 1..Len(cancelLog) :
                CancelsBy("status") = {i} /\ cancelLog[i][2] = BadStatus
          /\ published["status"] = calls["status"] - 1
    /\ (res["delay"] = InternalServerError /\ pc["delay"] # "check") =>
          /\ ~Stopped("delay")
          /\ pc["delay"] \in {"select", "parked", "call", "inflight"}
    /\ \A i \in CancelsBy("delay") : cancelLog[i][2] # BadStatus

\* The status worker has stopped on a 500 response while the delay worker
\* has had a 500 response accepted by main.
BadStatusFatalForStatusOnlyWitness ==
    /\ res["status"] = InternalServerError /\ Stopped("status")
    /\ res["delay"] = InternalServerError
    /\ lastSel["delay"] = "send"
    /\ published["delay"] = calls["delay"]

\* C10 (collector exit): main is outside its loop, or in the Done branch of
\* its select, only when the token is cancelled; while it is in the loop it
\* has printed no "in main: cancelled!" line and once it has left the loop
\* it has printed exactly one; no result line follows that line.
CollectorExitsOnlyOnCancel ==
    /\ (~InLoop \/ mainPc = "cancelled") => ctxDone
    /\ InLoop => Lines("in main: cancelled!") = {}
    /\ ~InLoop => Cardinality(Lines("in main: cancelled!")) = 1
    /\ \A i \in Lines("in main: cancelled!") :
          \A j \in Lines("in main:") : j < i

\* Main has left its loop after receiving every result the service allowed.
CollectorExitsOnlyOnCancelWitness ==
    /\ ~InLoop
    /\ Cardinality(Lines("in main:")) = 2 * MaxResp
    /\ Cardinality(Lines("in main: cancelled!")) = 1

\* C11 (no swallowed failure, no retry): a worker that has returned has
\* left the token cancelled and has made exactly one cancelFunc call, with a
\* non-nil cause naming its failure (its wrapped error, or "bad status" for
\* the status worker); and a worker whose call returned an error acts on it
\* and stops: no step of it issues another outbound call.
NoSwallowedFailureNoRetry ==
    [][\A w \in Workers :
          /\ Stopped(w)' =>
                /\ ctxDone'
                /\ Cause' # Nil
                /\ \E i \in 1..Len(cancelLog') :
                      /\ CancelsBy(w)' = {i}
                      /\ cancelLog'[i][2] # Nil
                      /\ cancelLog'[i][2] =
                            IF res'[w] \in Errors THEN Wrap(w, res'[w])
                                                  ELSE BadStatus
          /\ res[w] \in Errors =>
                /\ calls'[w] = calls[w]
                /\ pc[w] \in {"check", "return", "done"}
          /\ res'[w] \in Errors => pc'[w] \in {"check", "return", "done"}]_vars

\* Both workers have terminated: the status worker on a 500 response, the
\* delay worker on a transport failure after a published result.
NoSwallowedFailureNoRetryWitness ==
    /\ \A w \in Workers : pc[w] = "done"
    /\ res["status"] = InternalServerError
    /\ res["delay"] = ErrTransport
    /\ published["delay"] > 0

\* C12 as stated (synchronous handoff, counted on reports): in every state
\* the number of completed publishes equals the number of result lines main
\* has printed.
PublishedEqualsReported ==
    published["status"] + published["delay"] = Cardinality(Lines("in main:"))

\* What main holds: the results received and not yet printed.
Held(w) == IF mainPc = "recvd" /\ s = Msg(w) THEN 1 ELSE 0

\* The result lines printed for worker w.
Reported(w) == {i \in Lines("in main:") : out[i][2] = Msg(w)}

\* C12 as amended: a publish completes only in a step in which main, inside
\* its loop and not holding a result, receives that very result; nothing is
\* buffered: main holds at most the one result it received last, and for
\* each worker the completed publishes are the printed results plus the one
\* main holds and has not printed yet; each received result is printed once,
\* before the next receive, and after main has left its loop no publish
\* completes.
SynchronousHandoff ==
    [][/\ \A w \in Workers :
             /\ published[w] = Cardinality(Reported(w)) + Held(w)
             /\ published'[w] = Cardinality(Reported(w)') + Held(w)'
             /\ published'[w] # published[w] =>
                   /\ published'[w] = published[w] + 1
                   /\ mainPc \in {"select", "parked"}
                   /\ mainPc' = "recvd"
                   /\ s' = Msg(w)
                   /\ pc[w] \in {"select", "parked"}
                   /\ pc'[w] = AfterSelect(w)
       /\ ~InLoop => published' = published
       /\ mainPc = "recvd" =>
             /\ published' = published /\ s' = s
             /\ mainPc' # "recvd" =>
                   (mainPc' = "select" /\ out' = Append(out, <<"in main:", s>>))
      ]_vars

\* Main has printed every result of both workers and has left its loop.
SynchronousHandoffWitness ==
    /\ ~InLoop
    /\ \A w \in Workers :
          published[w] = MaxResp /\ Cardinality(Reported(w)) = MaxResp

\* The causes a worker passes for a failure met while the token is active.
GenuineCauses == {BadStatus} \cup {Wrap(w, ErrTransport) : w \in Workers}

\* C13 (the reported cause is a genuine failure): the cause in every
\* "in main: cancelled!" and "context cause:" line is one a worker passed
\* for a transport failure or a bad status; it is not nil, not the
\* context.Canceled of main's deferred cancelFunc(nil), and not the error of
\* a call aborted by the cancellation; and the call that recorded it was a
\* worker's, made while the token was active.
ReportedCauseGenuine ==
    /\ \A i \in Lines("in main: cancelled!") \cup Lines("context cause:") :
          /\ out[i][2] \in GenuineCauses
          /\ out[i][2] \notin {Nil, Canceled}
          /\ \A w \in Workers : out[i][2] # Wrap(w, ErrAborted)
          /\ out[i][2] = cancelLog[1][2]
          /\ cancelLog[1][1] \in Workers
    /\ ctxDone => Cause \in GenuineCauses

\* The final report is printed after a worker passed the error of its
\* aborted call and main made its deferred call.
ReportedCauseGenuineWitness ==
    /\ mainPc = "exit"
    /\ Lines("context cause:") # {}
    /\ \E i \in 2..Len(cancelLog), w \in Workers :
          cancelLog[i][2] = Wrap(w, ErrAborted)
    /\ cancelLog[Len(cancelLog)] = <<"main", Nil>>

----------------------------------------------------------------------------
\* The tracker service: tracker.Middleware, Controller.First,
\* LogicImpl.Process with tracker.Logger and tracker.Request injected.

\* Number of values the inbound request's X-GUID header may carry.
MaxHeaderValues == 2

\* Header values a client may send, and the values uuid.New().String() may
\* give (never empty).
GUIDValues == {"", "g1", "g2"}
UUIDs == {"u1", "u2"}

Headers ==
    UNION {[1..n -> GUIDValues] : n \in 0..MaxHeaderValues}

\* http.Header.Get: the first value of the header, "" when there is none.
Get(h) == IF h = <<>> THEN "" ELSE h[1]

\* http.Header.Add: appends the value.
Add(h, v) == Append(h, v)

\* Faulty variant of MiddlewareGUID: a new GUID for every request.
MiddlewareGUIDAlwaysNew(h, u) == u

\* The GUID Middleware writes into the context: the inbound one if it is
\* not empty, else the new one u.
MiddlewareGUID(h, u) == IF Get(h) # "" THEN Get(h) ELSE u

\* An inbound request with any X-GUID header has reached the router.
TrackerInit ==
    /\ MainInit
    /\ TimeoutIdle
    /\ IdentityIdle
    /\ LoopIdle
    /\ tPc = "middleware"
    /\ inHeader \in Headers
    /\ freshGUID = "none"
    /\ ctxGUID = "none"
    /\ outHeader = <<>>
    /\ sentHeader = <<>>
    /\ tLog = <<>>

\* tracker.Middleware: uuid.New() is called only when the inbound header is
\* empty; the handler is then served with the enriched context.
Middleware ==
    /\ tPc = "middleware"
    /\ \E u \in UUIDs :
          /\ freshGUID' = IF Get(inHeader) # "" THEN "none" ELSE u
          /\ ctxGUID' = MiddlewareGUID(inHeader, u)
    /\ tPc' = "process"
    /\ UNCHANGED <<inHeader, outHeader, sentHeader, tLog>>
    /\ UNCHANGED notTrackerVars

\* Logger.Log: the line printed for `message`, with the GUID of the context
\* in front when there is one.
Log(message) ==
    IF ctxGUID # "none" THEN <<"GUID: " \o ctxGUID \o " - ", message>>
                        ELSE <<"", message>>

\* Process: the first log line and http.NewRequestWithContext, which fails
\* on data that makes the URL invalid; the new request has no header.
ProcessBuild ==
    /\ tPc = "process"
    /\ \E ok \in BOOLEAN :
          IF ok
             THEN /\ tLog' = Append(tLog, Log("starting Process"))
                  /\ tPc' = "built"
             ELSE /\ tLog' = tLog \o <<Log("starting Process"),
                                        Log("error building remote request")>>
                  /\ tPc' = "done"
    /\ outHeader' = <<>>
    /\ UNCHANGED <<inHeader, freshGUID, ctxGUID, sentHeader>>
    /\ UNCHANGED notTrackerVars

\* tracker.Request, injected as RequestDecorator: adds the X-GUID header if
\* the context has a GUID.
Request ==
    /\ tPc = "built"
    /\ outHeader' = IF ctxGUID # "none" THEN Add(outHeader, ctxGUID)
                                        ELSE outHeader
    /\ tPc' = "decorated"
    /\ UNCHANGED <<inHeader, freshGUID, ctxGUID, sentHeader, tLog>>
    /\ UNCHANGED notTrackerVars

\* http.DefaultClient.Do(req) and the rest of Process: a transport error
\* and an empty response are logged, a body is read and returned.
Do ==
    /\ tPc = "decorated"
    /\ sentHeader' = Append(sentHeader, outHeader)
    /\ \E r \in {"error", "no body", "body"} :
          tLog' = IF r = "error"
                     THEN Append(tLog, Log("error building remote request"))
                  ELSE IF r = "no body"
                     THEN Append(tLog, Log("empty response from second"))
                  ELSE tLog
    /\ tPc' = "done"
    /\ UNCHANGED <<inHeader, freshGUID, ctxGUID, outHeader>>
    /\ UNCHANGED notTrackerVars

TrackerNext ==
    \/ Middleware
    \/ ProcessBuild
    \/ Request
    \/ Do

TrackerSpec == TrackerInit /\ [][TrackerNext]_vars

\* The GUID of the request chain: the inbound one, or the generated one.
ChainGUID == IF Get(inHeader) # "" THEN Get(inHeader) ELSE freshGUID

\* C14 (GUID continuity): the request sent to the remote service carries
\* exactly one X-GUID value, which is the inbound header's value when that
\* is not empty and otherwise the GUID the middleware generated for this
\* request; every line Process logs starts with that same GUID; and a GUID
\* is generated only when the inbound one is empty.
GUIDContinuity ==
    /\ \A i \in 1..Len(sentHeader) : sentHeader[i] = <<ChainGUID>>
    /\ \A i \in 1..Len(tLog) : tLog[i][1] = "GUID: " \o ChainGUID \o " - "
    /\ tPc \notin {"idle", "middleware"} =>
          /\ ChainGUID \in (GUIDValues \ {""}) \cup UUIDs
          /\ (freshGUID # "none") <=> (Get(inHeader) = "")
          /\ ctxGUID = ChainGUID

\* A request with a non-empty inbound GUID has been passed on and logged.
GUIDContinuityWitness ==
    /\ tPc = "done"
    /\ Get(inHeader) = "g1"
    /\ sentHeader = << <<"g1">> >>
    /\ Len(tLog) = 2

----------------------------------------------------------------------------
\* Timeout(ms): the middleware of exercise 1.

\* Largest argument of Timeout and last instant of the clock.
MaxMs == 3
MaxNow == 5

Min(S) == CHOOSE x \in S : \A y \in S : x <= y

\* context.WithTimeout(parent, d) at instant `at`: the deadline is at + d,
\* or the parent's if that is earlier.
WithTimeout(parent, d, at) == {Min(parent \cup {at + d})}

\* <-c.Done() can proceed: the deadline of c has passed.
IsDone(c) == \E d \in c : now >= d

\* A request whose context has no deadline or any deadline, to a handler
\* wrapped by Timeout(ms).
TimeoutInit ==
    /\ MainInit
    /\ TrackerIdle
    /\ IdentityIdle
    /\ LoopIdle
    /\ toPc = "start"
    /\ ms \in 1..MaxMs
    /\ now = 0
    /\ reqCtx \in {{}} \cup {{d} : d \in 1..MaxNow}
    /\ toCtx = {}
    /\ created = 0
    /\ hCtx = {}

\* ctx := r.Context(); ctx, cancelFunc := context.WithTimeout(ctx, ...)
TimeoutCreate ==
    /\ toPc = "start"
    /\ toCtx' = WithTimeout(reqCtx, ms, now)
    /\ created' = now
    /\ toPc' = "created"
    /\ UNCHANGED <<ms, now, reqCtx, hCtx>>
    /\ UNCHANGED notTimeoutVars

\* The context of the request passed to h.ServeHTTP(w, r): r is the inbound
\* request, the middleware never replaces it by r.WithContext(ctx).
ServedCtx == reqCtx

\* h.ServeHTTP(w, r)
TimeoutServe ==
    /\ toPc = "created"
    /\ hCtx' = ServedCtx
    /\ toPc' = "handling"
    /\ UNCHANGED <<ms, now, reqCtx, toCtx, created>>
    /\ UNCHANGED notTimeoutVars

\* h returns; the deferred cancelFunc releases ctx.
TimeoutReturn ==
    /\ toPc = "handling"
    /\ toPc' = "returned"
    /\ UNCHANGED <<ms, now, reqCtx, toCtx, created, hCtx>>
    /\ UNCHANGED notTimeoutVars

\* A millisecond passes.
Tick ==
    /\ toPc \in {"start", "created", "handling"}
    /\ now < MaxNow
    /\ now' = now + 1
    /\ UNCHANGED <<toPc, ms, reqCtx, toCtx, created, hCtx>>
    /\ UNCHANGED notTimeoutVars

TimeoutNext ==
    \/ TimeoutCreate
    \/ TimeoutServe
    \/ TimeoutReturn
    \/ Tick

TimeoutSpec == TimeoutInit /\ [][TimeoutNext]_vars

\* C15 (the wrapped handler sees the timeout): while h is running, the
\* context of its request has a deadline no later than ms milliseconds after
\* the middleware created the timeout, and once those ms milliseconds have
\* passed that context is done.
HandlerSeesTimeout ==
    toPc = "handling" =>
        /\ \E d \in hCtx : d <= created + ms
        /\ now >= created + ms => IsDone(hCtx)

\* ---------------------------------------------------------------------
\* The identity service: identity.Middleware in front of /business, and
\* the Login, DoLogic and Logout handlers.
\* ---------------------------------------------------------------------

MaxCookies == 2
MaxUserLen == 2

StatusOK == 200
StatusBadRequest == 400
StatusUnauthorized == 401
StatusInternalServerError == 500

Quote == "\""
Space == " "

\* The bytes a user name is made of here: a plain byte, a space, and a byte
\* no cookie value can hold.
Chars == {"a", Space, ";"}

RECURSIVE SeqsUpTo(_, _)
SeqsUpTo(S, n) ==
    IF n = 0 THEN {<<>>}
    ELSE LET shorter == SeqsUpTo(S, n - 1)
         IN shorter \cup {Append(q, c) : q \in shorter, c \in S}

\* The values of the "user" query parameter.
Users == SeqsUpTo(Chars, MaxUserLen)

\* net/http validCookieValueByte.
validCookieValueByte(b) == b \notin {Quote, ";", "\\"}

RECURSIVE Filter(_)
Filter(v) ==
    IF v = <<>> THEN <<>>
    ELSE IF validCookieValueByte(Head(v)) THEN <<Head(v)>> \o Filter(Tail(v))
    ELSE Filter(Tail(v))

\* net/http sanitizeCookieValue: invalid bytes are dropped, and a value
\* holding a space is written between double quotes.
sanitizeCookieValue(v) ==
    LET kept == Filter(v)
    IN IF \E i \in 1..Len(kept) : kept[i] = Space
       THEN <<Quote>> \o kept \o <<Quote>>
       ELSE kept

\* net/http parseCookieValue: a pair of surrounding double quotes is
\* stripped; a value with an invalid byte is no value.
parseCookieValue(raw) ==
    LET inner == IF Len(raw) > 1 /\ raw[1] = Quote /\ raw[Len(raw)] = Quote
                 THEN SubSeq(raw, 2, Len(raw) - 1)
                 ELSE raw
    IN IF \A i \in 1..Len(inner) : validCookieValueByte(inner[i])
       THEN {inner}
       ELSE {}

\* req.Cookie(name): the value of the first well-formed cookie of that name
\* in the Cookie header, if there is one.
RECURSIVE Cookie(_, _)
Cookie(hdr, name) ==
    IF hdr = <<>> THEN {}
    ELSE IF Head(hdr)[1] = name /\ parseCookieValue(Head(hdr)[2]) # {}
    THEN parseCookieValue(Head(hdr)[2])
    ELSE Cookie(Tail(hdr), name)

extractUser(hdr) == Cookie(hdr, "identity")

\* strings.TrimSpace.
RECURSIVE TrimLeft(_)
TrimLeft(v) ==
    IF v # <<>> /\ Head(v) = Space THEN TrimLeft(Tail(v)) ELSE v

RECURSIVE TrimRight(_)
TrimRight(v) ==
    IF v # <<>> /\ v[Len(v)] = Space
    THEN TrimRight(SubSeq(v, 1, Len(v) - 1))
    ELSE v

TrimSpace(v) == TrimRight(TrimLeft(v))

\* The cookie identity.SetUser writes: no Path, no MaxAge.
SetUser(user) ==
    [value |-> sanitizeCookieValue(user), path |-> {}, maxAge |-> 0]

\* The cookie identity.DeleteUser writes.
DeleteUser == [value |-> <<>>, path |-> {"/"}, maxAge |-> -1]

Login(userName) ==
    IF Len(TrimSpace(userName)) = 0
    THEN [status |-> StatusBadRequest, invoked |-> "Login", user |-> {},
          greeted |-> {}, setCookie |-> <<>>]
    ELSE [status |-> StatusOK, invoked |-> "Login", user |-> {},
          greeted |-> {}, setCookie |-> <<SetUser(userName)>>]

\* ctxUser is the result of identity.UserFromContext: no user, or the user.
DoLogic(ctxUser) ==
    IF ctxUser = {}
    THEN [status |-> StatusInternalServerError, invoked |-> "DoLogic",
          user |-> {}, greeted |-> {}, setCookie |-> <<>>]
    ELSE [status |-> StatusOK, invoked |-> "DoLogic", user |-> ctxUser,
          greeted |-> ctxUser, setCookie |-> <<>>]

Logout(ctxUser) ==
    IF ctxUser = {}
    THEN [status |-> StatusInternalServerError, invoked |-> "Logout",
          user |-> {}, greeted |-> {}, setCookie |-> <<>>]
    ELSE [status |-> StatusOK, invoked |-> "Logout", user |-> ctxUser,
          greeted |-> {}, setCookie |-> <<DeleteUser>>]

\* The handler the router has registered under /business for a route.
Wrapped(rt, ctxUser) ==
    IF rt = "/business/" THEN DoLogic(ctxUser) ELSE Logout(ctxUser)

Unauthorized ==
    [status |-> StatusUnauthorized, invoked |-> "none", user |-> {},
     greeted |-> {}, setCookie |-> <<>>]

\* A middleware that serves the wrapped handler whatever extractUser says.
IdentityMiddlewareOpen(rt, hdr) == Wrapped(rt, extractUser(hdr))

\* identity.Middleware around the wrapped handler of a route.
IdentityMiddleware(rt, hdr) ==
    IF extractUser(hdr) = {} THEN Unauthorized
    ELSE Wrapped(rt, extractUser(hdr))

\* The router of main: /login is bare, the two /business routes are
\* behind identity.Middleware.
Serve(rt, hdr, userName) ==
    IF rt = "/login" THEN Login(userName) ELSE IdentityMiddleware(rt, hdr)

BusinessRoutes == {"/business/", "/business/logout"}

\* Cookie values as they arrive in a Cookie header (which is split at ";").
RawValues ==
    { <<>>, <<"a">>, <<Quote, "a", Quote>>, <<Quote, Quote>>, <<Quote>>,
      <<"a", Quote>>, <<Quote, "a", Space, Quote>>, <<"a", "a">> }

CookiePairs == {<<n, v>> : n \in {"identity", "other"}, v \in RawValues}

CookieHeaders == SeqsUpTo(CookiePairs, MaxCookies)

\* One request to a /business route with any Cookie header.
GateInit ==
    /\ MainInit
    /\ TrackerIdle
    /\ TimeoutIdle
    /\ LoopIdle
    /\ jar = {}
    /\ route \in BusinessRoutes
    /\ reqCookies \in CookieHeaders
    /\ userParam = <<>>
    /\ resp = NoResp
    /\ session = {}

GateServe ==
    /\ resp = NoResp
    /\ resp' = Serve(route, reqCookies, userParam)
    /\ UNCHANGED <<jar, route, reqCookies, userParam, session>>
    /\ UNCHANGED notIdentityVars

GateNext == GateServe

GateSpec == GateInit /\ [][GateNext]_vars

\* The request carries an identity cookie.
CarriesIdentity == \E i \in 1..Len(reqCookies) : reqCookies[i][1] = "identity"

\* C16 (identity gate): once a /business request is answered, the wrapped
\* handler was invoked only if the request carries an identity cookie, and
\* then the user it found in the context is the value of that cookie; a
\* request without the cookie got 401 with no handler invoked; and no
\* request got the handlers' 500.
IdentityGate ==
    resp # NoResp =>
        /\ resp.invoked # "none" =>
               /\ resp.user # {}
               /\ \E i \in 1..Len(reqCookies) :
                      /\ reqCookies[i][1] = "identity"
                      /\ resp.user = parseCookieValue(reqCookies[i][2])
        /\ ~CarriesIdentity =>
               /\ resp.status = StatusUnauthorized
               /\ resp.invoked = "none"
        /\ resp.status # StatusInternalServerError

IdentityGateWitness ==
    /\ route = "/business/"
    /\ reqCookies = << <<"other", <<"a">> >>, <<"identity", <<Quote, "a", Quote>> >> >>
    /\ resp.invoked = "DoLogic"
    /\ resp.user = {<<"a">>}

\* The client: it keeps the cookies the responses set and sends back, with
\* each request, those whose path covers the request's path.

\* The path a cookie without a Path attribute gets from the request's path.
DefaultPath(rt) == IF rt = "/login" THEN "/" ELSE "/business"

PathMatch(cookiePath, rt) ==
    \/ cookiePath = "/"
    \/ cookiePath = "/business" /\ rt \in BusinessRoutes

StoreCookie(j, rt, c) ==
    LET p == IF c.path = {} THEN DefaultPath(rt) ELSE CHOOSE x \in c.path : TRUE
        others == {k \in j : k.path # p}
    IN IF c.maxAge < 0 THEN others
       ELSE others \cup {[path |-> p, value |-> c.value]}

RECURSIVE StoreCookies(_, _, _)
StoreCookies(j, rt, cs) ==
    IF cs = <<>> THEN j
    ELSE StoreCookies(StoreCookie(j, rt, Head(cs)), rt, Tail(cs))

RECURSIVE SetToSeq(_)
SetToSeq(S) ==
    IF S = {} THEN <<>>
    ELSE LET x == CHOOSE y \in S : TRUE
         IN <<x>> \o SetToSeq(S \ {x})

\* The Cookie header the client sends to a route.
JarHeader(j, rt) ==
    LET sent == SetToSeq({k \in j : PathMatch(k.path, rt)})
    IN [i \in 1..Len(sent) |-> <<"identity", sent[i].value>>]

SessionInit == Init

\* The service's answer to a request of the client, and what the client
\* keeps of it.
Exchange(rt, userName) ==
    LET hdr == JarHeader(jar, rt)
        r == Serve(rt, hdr, userName)
    IN /\ reqCookies' = hdr
       /\ resp' = r
       /\ jar' = StoreCookies(jar, rt, r.setCookie)
       /\ session' =
              IF r.invoked = "Login" /\ r.status = StatusOK THEN {userName}
              ELSE IF r.invoked = "Logout" /\ r.status = StatusOK THEN {}
              ELSE session
       /\ UNCHANGED notIdentityVars

LoginRequest ==
    \E u \in Users :
        /\ route' = "/login"
        /\ userParam' = u
        /\ Exchange("/login", u)

BusinessRequest ==
    /\ route' = "/business/"
    /\ userParam' = <<>>
    /\ Exchange("/business/", <<>>)

LogoutRequest ==
    /\ route' = "/business/logout"
    /\ userParam' = <<>>
    /\ Exchange("/business/logout", <<>>)

SessionNext ==
    \/ LoginRequest
    \/ BusinessRequest
    \/ LogoutRequest

SessionSpec == SessionInit /\ [][SessionNext]_vars

\* C17 (login/logout session sequence): a Login with an empty or
\* whitespace-only user is answered 400 and sets no cookie; a Login with any
\* other user sets the identity cookie to that user; a /business request of
\* the cookie-keeping client after Login(u) runs the business logic with
\* user u; and a /business request after a following Logout, before the next
\* successful Login, is answered 401.
SessionSequence ==
    [][ /\ route' = "/login" /\ TrimSpace(userParam') = <<>> =>
            /\ resp'.status = StatusBadRequest
            /\ resp'.setCookie = <<>>
            /\ jar' = jar
        /\ route' = "/login" /\ TrimSpace(userParam') # <<>> =>
            /\ Len(resp'.setCookie) = 1
            /\ parseCookieValue(resp'.setCookie[1].value) = {userParam'}
        /\ route' = "/business/" /\ session # {} =>
            /\ resp'.invoked = "DoLogic"
            /\ resp'.greeted = session
        /\ route' \in BusinessRoutes /\ session = {} =>
            resp'.status = StatusUnauthorized
      ]_vars

\* ---------------------------------------------------------------------
\* The summation loop of exercise 2.  One action is one statement of the
\* loop; the deadline of ctx passes at any moment between two statements.
\* ---------------------------------------------------------------------

\* Number of iterations the loop can complete before the deadline passes.
MaxIter == 3

Target == 1234
MaxValue == 99999999

\* Values rand.IntN(100_000_000) returns: the least, one more, the one the
\* loop waits for, the greatest.
RandValues == {0, 1, Target, MaxValue}

LoopInit == Init

\* for ; v != 1234; ...
LoopCond ==
    /\ loopPc = "cond"
    /\ loopPc' = IF loopV # Target THEN "add" ELSE "print"
    /\ UNCHANGED <<loopV, loopI, sum, reason, deadlinePassed, printed,
                   generated, addedValues, addedInTime, passedChecks,
                   foundPassed>>
    /\ UNCHANGED notLoopVars

\* sum += v
LoopAdd ==
    /\ loopPc = "add"
    /\ sum' = sum + loopV
    /\ addedValues' = addedValues \cup {loopV}
    /\ addedInTime' = IF deadlinePassed THEN addedInTime ELSE addedInTime + 1
    /\ loopPc' = "check"
    /\ UNCHANGED <<loopV, loopI, reason, deadlinePassed, printed, generated,
                   passedChecks, foundPassed>>
    /\ UNCHANGED notLoopVars

\* An i that counts the iteration whatever its check finds.
CountedAlways(n, passed) == n + 1

\* i after the check of an iteration: break skips i++.
Counted(n, passed) == IF passed THEN n ELSE n + 1

\* if err := context.Cause(ctx); err != nil { reason = "timeout"; break }
\* i++
LoopCheck ==
    /\ loopPc = "check"
    /\ reason' = IF deadlinePassed THEN "timeout" ELSE reason
    /\ loopI' = Counted(loopI, deadlinePassed)
    /\ loopPc' = IF deadlinePassed THEN "print" ELSE "post"
    /\ passedChecks' = IF deadlinePassed THEN passedChecks ELSE passedChecks + 1
    /\ foundPassed' = deadlinePassed
    /\ UNCHANGED <<loopV, sum, deadlinePassed, printed, generated,
                   addedValues, addedInTime>>
    /\ UNCHANGED notLoopVars

\* v = rand.IntN(100_000_000)
LoopPost ==
    /\ loopPc = "post"
    /\ loopI < MaxIter \/ deadlinePassed
    /\ \E x \in RandValues :
           /\ loopV' = x
           /\ generated' = {x}
    /\ loopPc' = "cond"
    /\ UNCHANGED <<loopI, sum, reason, deadlinePassed, printed, addedValues,
                   addedInTime, passedChecks, foundPassed>>
    /\ UNCHANGED notLoopVars

\* The three lines printed after the loop.
LoopPrint ==
    /\ loopPc = "print"
    /\ printed' = << <<"termination cause:", reason>>,
                     <<"number of iterations:", loopI>>,
                     <<"sum:", sum>> >>
    /\ loopPc' = "done"
    /\ UNCHANGED <<loopV, loopI, sum, reason, deadlinePassed, generated,
                   addedValues, addedInTime, passedChecks, foundPassed>>
    /\ UNCHANGED notLoopVars

LoopStep ==
    \/ LoopCond
    \/ LoopAdd
    \/ LoopCheck
    \/ LoopPost
    \/ LoopPrint

\* The 2 seconds of context.WithTimeout are over.
DeadlinePasses ==
    /\ ~deadlinePassed
    /\ loopPc # "done"
    /\ deadlinePassed' = TRUE
    /\ UNCHANGED <<loopPc, loopV, loopI, sum, reason, printed, generated,
                   addedValues, addedInTime, passedChecks, foundPassed>>
    /\ UNCHANGED notLoopVars

LoopNext ==
    \/ LoopStep
    \/ DeadlinePasses

LoopSpec == LoopInit /\ [][LoopNext]_vars

\* The goroutine of main keeps running, and the deadline passes.
LoopLiveSpec == LoopSpec /\ WF_vars(LoopStep) /\ WF_vars(DeadlinePasses)

\* C18 (summation loop) as stated: the loop terminates; once 1234 is
\* generated, or once a check has found the deadline passed, no further
\* statement of the body runs; the printed reason is "timeout" only if the
\* deadline had passed and "number reached" only if the last generated
\* value is 1234; 1234 is never added to the sum; and the printed iteration
\* count is the number of values added while the deadline had not passed.
SumLoopCountsAdditionsInTime ==
    /\ <>(loopPc = "done")
    /\ [](loopV = Target => loopPc \in {"cond", "print", "done"})
    /\ [](foundPassed => loopPc \in {"print", "done"})
    /\ [](Target \notin addedValues)
    /\ [](loopPc = "done" =>
            /\ printed[1][2] \in {"timeout", "number reached"}
            /\ printed[1][2] = "timeout" => deadlinePassed
            /\ printed[1][2] = "number reached" => generated = {Target}
            /\ printed[2][2] = addedInTime)

\* C18, amended: as above, except that the printed iteration count is the
\* number of iterations whose check found the deadline not passed; the
\* number of values added while the deadline had not passed is that count,
\* or one more when the deadline passed between an addition and its check;
\* and every value added is counted except the one of the iteration that
\* found the deadline passed.
SumLoopCountsPassedChecks ==
    /\ <>(loopPc = "done")
    /\ [](loopV = Target => loopPc \in {"cond", "print", "done"})
    /\ [](foundPassed => loopPc \in {"print", "done"})
    /\ [](Target \notin addedValues)
    /\ [](loopPc = "done" =>
            /\ printed[1][2] \in {"timeout", "number reached"}
            /\ printed[1][2] = "timeout" => deadlinePassed /\ foundPassed
            /\ printed[1][2] = "number reached" =>
                   generated = {Target} /\ ~foundPassed
            /\ printed[2][2] = passedChecks
            /\ addedInTime \in {printed[2][2], printed[2][2] + 1}
            /\ addedInTime = printed[2][2] + 1 => printed[1][2] = "timeout"
            /\ printed[1][2] = "number reached" =>
                   addedInTime = printed[2][2])

\* The deadline passed between an addition and its check: the value was
\* added in time and the iteration is not counted.
SumLoopWitness ==
    /\ loopPc = "done"
    /\ printed[1][2] = "timeout"
    /\ printed[2][2] = 2
    /\ addedInTime = 3
    /\ sum = MaxValue + 1

====
